---- MODULE Spec2Model ----
(***************************************************************************)
(* A model of frida-trace's index.js: the descriptor constructors, the     *)
(* action compiler (computeActions), the decode actions, the interception  *)
(* binder (makeInterceptor) and the target resolver (trace).               *)
(***************************************************************************)
EXTENDS Integers, Sequences, FiniteSets, TLC

VARIABLES
    func,        \* SpecCompile: the function schema handed to computeActions
    compiled,    \* SpecCompile: what computeActions returned and left in its lists
    recompiled,  \* SpecCompile: the same for a second computeActions on the schema
    call,        \* SpecParse: the arguments of a type's parse
    returned,    \* SpecParse: what parse returned or raised, and the memory it read
    spec,        \* the trace configuration: module, vtable, functions, callbacks
    env,         \* the process: exported symbols, readable vtable slots
    tracePc,     \* "init", then "done" or "thrown" once trace(spec) has run
    errors,      \* the reports made to callbacks.onError, in order
    reads,       \* the vtable offsets handed to Memory.readPointer, in order
    hooks,       \* the Interceptor.attach calls made, in order
    invs,        \* the invocations of hooked functions started so far
    stacks,      \* per thread, the invocations in flight, innermost last
    thisOf,      \* the invocation contexts ("this" of onEnter/onLeave)
    delivered,   \* the events handed to callbacks.onEvent, in order
    uncaught     \* the exceptions that left onEnter/onLeave, in order

cvars == <<func, compiled, recompiled>>
pvars == <<call, returned>>
tvars == <<spec, env, tracePc, errors, reads, hooks>>
rvars == <<invs, stacks, thisOf, delivered, uncaught>>
vars == <<func, compiled, recompiled, call, returned, spec, env, tracePc, errors, reads, hooks,
          invs, stacks, thisOf, delivered, uncaught>>

(***************************************************************************)
(* Bounds of the model.                                                    *)
(***************************************************************************)
MaxArgs == 2     \* argument descriptors of a schema (the return value comes on top)
MaxDeps == 2     \* conditions and type-parameter bindings of a schema
MaxFuncs == 2    \* entries of spec.functions in SpecTrace
MaxPadding == 2  \* the size of a padding marker
MaxCalls == 1    \* invocations started in Spec (every function of the catalogue)
MaxInvocations == 2   \* invocations started in SpecThreads (two small functions)

(***************************************************************************)
(* Values of the schema language.                                          *)
(***************************************************************************)
NONE == "none"                       \* JS null / undefined
IN_ == "in"
OUT == "out"
IN_OUT == "in-out"
Directions == {IN_, OUT, IN_OUT}

ArgNames == <<"a", "b", "c", "d">>   \* the name of the k-th argument descriptor
Dangling == "zz"                     \* a name no descriptor defines

NoCondition == [value |-> NONE, predicate |-> NONE]
NoBinding == [property |-> NONE, value |-> NONE]

bind(property, value) == [property |-> property, value |-> value]

when(value, predicate) == [value |-> value, predicate |-> predicate]

\* A type is either a plain type or the array [type, binding].
PlainType(base) == [isArray |-> FALSE, base |-> base, binding |-> NoBinding]
DependentType(base, binding) == [isArray |-> TRUE, base |-> base, binding |-> binding]

\* dependencies without the Out test: every descriptor is treated as an input
dependenciesNoOut(direction, type, condition) ==
    (IF type.isArray THEN <<type.binding.value>> ELSE <<>>)
    \o (IF condition # NoCondition THEN <<condition.value>> ELSE <<>>)

\* dependencies without the condition's source
dependenciesNoCondition(direction, type, condition) ==
    (IF direction = OUT THEN <<"$out">> ELSE <<>>)
    \o (IF type.isArray THEN <<type.binding.value>> ELSE <<>>)

dependencies(direction, type, condition) ==
    (IF direction = OUT THEN <<"$out">> ELSE <<>>)
    \o (IF type.isArray THEN <<type.binding.value>> ELSE <<>>)
    \o (IF condition # NoCondition THEN <<condition.value>> ELSE <<>>)

arg(direction, name, type, condition) ==
    [direction |-> direction,
     name |-> name,
     type |-> type,
     condition |-> condition,
     requires |-> dependencies(direction, type, condition)]

argIn(name, type, condition) == arg(IN_, name, type, condition)

argOut(name, type, condition) == arg(OUT, name, type, condition)

argInOut(name, type, condition) == arg(IN_OUT, name, type, condition)

retval(type, condition) == argOut("result", type, condition)

NullRet == [direction |-> NONE, name |-> NONE, type |-> PlainType(NONE),
            condition |-> NoCondition, requires |-> <<>>]

funcOf(name, ret, args) == [name |-> name, ret |-> ret, args |-> args]

(***************************************************************************)
(* The action compiler.                                                    *)
(***************************************************************************)
computeAction(a, index) ==
    LET hasDependentType == a.type.isArray
        hasCondition == a.condition # NoCondition
    IN  IF hasDependentType
        THEN IF hasCondition
             THEN [action |-> "readValueWithDependentTypeConditionally", index |-> index,
                   name |-> a.name, parse |-> a.type.base, binding |-> a.type.binding,
                   condition |-> a.condition]
             ELSE [action |-> "readValueWithDependentType", index |-> index,
                   name |-> a.name, parse |-> a.type.base, binding |-> a.type.binding,
                   condition |-> NoCondition]
        ELSE IF hasCondition
             THEN [action |-> "readValueConditionally", index |-> index,
                   name |-> a.name, parse |-> a.type.base, binding |-> NoBinding,
                   condition |-> a.condition]
             ELSE [action |-> "readValue", index |-> index,
                   name |-> a.name, parse |-> a.type.base, binding |-> NoBinding,
                   condition |-> NoCondition]

\* one scan that visits the descriptors from the last to the first
RECURSIVE scanArgsBackwards(_, _, _, _)
scanArgsBackwards(args, i, satisfied, actions) ==
    IF i > Len(args)
    THEN [satisfied |-> satisfied, actions |-> actions]
    ELSE LET j == Len(args) + 1 - i
         IN  IF args[j].name \in satisfied
             THEN scanArgsBackwards(args, i + 1, satisfied, actions)
             ELSE LET remaining == SelectSeq(args[j].requires, LAMBDA dep : dep \notin satisfied)
                  IN  IF Len(remaining) = 0
                      THEN scanArgsBackwards(args, i + 1, satisfied \cup {args[j].name},
                                             Append(actions, computeAction(args[j], j - 1)))
                      ELSE scanArgsBackwards(args, i + 1, satisfied, actions)

\* one scan that ignores the requirements no descriptor of the schema defines
RECURSIVE scanArgsIgnoresUnknown(_, _, _, _)
scanArgsIgnoresUnknown(args, i, satisfied, actions) ==
    IF i > Len(args)
    THEN [satisfied |-> satisfied, actions |-> actions]
    ELSE IF args[i].name \in satisfied
         THEN scanArgsIgnoresUnknown(args, i + 1, satisfied, actions)
         ELSE LET remaining ==
                      SelectSeq(args[i].requires,
                                LAMBDA dep : /\ dep \notin satisfied
                                             /\ \/ dep = "$out"
                                                \/ \E j \in 1..Len(args) : args[j].name = dep)
              IN  IF Len(remaining) = 0
                  THEN scanArgsIgnoresUnknown(args, i + 1, satisfied \cup {args[i].name},
                                              Append(actions, computeAction(args[i], i - 1)))
                  ELSE scanArgsIgnoresUnknown(args, i + 1, satisfied, actions)

\* One args.forEach of a fixed-point pass, from position i on (1-based here,
\* the index handed to computeAction is the 0-based one of the code).
RECURSIVE scanArgs(_, _, _, _)
scanArgs(args, i, satisfied, actions) ==
    IF i > Len(args)
    THEN [satisfied |-> satisfied, actions |-> actions]
    ELSE IF args[i].name \in satisfied
         THEN scanArgs(args, i + 1, satisfied, actions)
         ELSE LET remaining == SelectSeq(args[i].requires, LAMBDA dep : dep \notin satisfied)
              IN  IF Len(remaining) = 0
                  THEN scanArgs(args, i + 1, satisfied \cup {args[i].name},
                                Append(actions, computeAction(args[i], i - 1)))
                  ELSE scanArgs(args, i + 1, satisfied, actions)

\* a pass that scans once more after the scan that added nothing
RECURSIVE fixedPointRescans(_, _, _, _)
fixedPointRescans(args, satisfied, actions, scans) ==
    LET previousSatisfiedSize == Cardinality(satisfied)
        r == scanArgs(args, 1, satisfied, actions)
    IN  IF Cardinality(r.satisfied) # previousSatisfiedSize
        THEN fixedPointRescans(args, r.satisfied, r.actions, scans + 1)
        ELSE [satisfied |-> r.satisfied, actions |-> r.actions, scans |-> scans + 2]

\* do { scan } while (satisfied.size !== previousSatisfiedSize)
RECURSIVE fixedPoint(_, _, _, _)
fixedPoint(args, satisfied, actions, scans) ==
    LET previousSatisfiedSize == Cardinality(satisfied)
        r == scanArgs(args, 1, satisfied, actions)
    IN  IF Cardinality(r.satisfied) # previousSatisfiedSize
        THEN fixedPoint(args, r.satisfied, r.actions, scans + 1)
        ELSE [satisfied |-> r.satisfied, actions |-> r.actions, scans |-> scans + 1]

allArgs(f) == IF f.ret # NullRet THEN Append(f.args, f.ret) ELSE f.args

\* computeActions that never adds the "$out" sentinel between the passes
computeActionsNoSentinel(f) ==
    LET args == allArgs(f)
        p1 == fixedPoint(args, {}, <<>>, 0)
        p2 == fixedPoint(args, p1.satisfied, <<>>, 0)
    IN  [ok |-> \A i \in 1..Len(args) : args[i].name \in p2.satisfied,
         inputActions |-> p1.actions,
         outputActions |-> p2.actions,
         scans1 |-> p1.scans,
         scans2 |-> p2.scans,
         args |-> f.args]

\* The result holds what the call returns (ok), what it has pushed onto the
\* two lists, the scans each pass made, and func.args as the call leaves it:
\* the return value's descriptor is pushed onto the copy made by slice().
computeActions(f) ==
    LET args == allArgs(f)
        p1 == fixedPoint(args, {}, <<>>, 0)
        p2 == fixedPoint(args, p1.satisfied \cup {"$out"}, <<>>, 0)
    IN  [ok |-> \A i \in 1..Len(args) : args[i].name \in p2.satisfied,
         inputActions |-> p1.actions,
         outputActions |-> p2.actions,
         scans1 |-> p1.scans,
         scans2 |-> p2.scans,
         args |-> f.args]

(***************************************************************************)
(* Decoded values, the value types and the Event.                          *)
(***************************************************************************)
Undefined == [t |-> "undefined", v |-> 0, n |-> 0]
Null == [t |-> "null", v |-> 0, n |-> 0]
IntVal(i) == [t |-> "int", v |-> i, n |-> 0]
BoolVal(b) == [t |-> "bool", v |-> IF b THEN 1 ELSE 0, n |-> 0]
PtrVal(w) == [t |-> "ptr", v |-> w, n |-> 0]
\* what a Memory.read* of `length` units at address w returns
Mem(kind, w, length) == [t |-> kind, v |-> w, n |-> length]

\* The outcome of a parse, a read or a predicate: the value returned or an
\* exception, and the calls of Memory.read* made on the way.
Thrown == [raised |-> TRUE, value |-> Undefined, reads |-> <<>>]
Normal(value) == [raised |-> FALSE, value |-> value, reads |-> <<>>]

\* The raw words of the model: 0 is the null pointer, Readable the addresses
\* the Memory.read* functions accept; they raise on every other address.
Words == {0, 1, 2}
Readable == {1}

\* the low 32 bits of a word, read as a signed number
toInt32(w) == IF w > 2147483647 THEN (w - 2147483647) - 2147483647 - 2 ELSE w

\* typeParameters: undefined, or the object {[property]: value}
NoParameters == [defined |-> FALSE, property |-> NONE, value |-> Undefined]
Parameters(property, value) == [defined |-> TRUE, property |-> property, value |-> value]

\* parameters.length: raises on undefined parameters
lengthOf(parameters) ==
    IF ~parameters.defined THEN Thrown
    ELSE IF parameters.property = "length" THEN Normal(parameters.value)
    ELSE Normal(Undefined)

\* the length argument as Memory.read* takes it: a number, or -1 (unbounded)
asLength(value) == IF value.t = "int" THEN value.v ELSE -1

memoryRead(kind, ptr, length) ==
    [IF ptr \in Readable THEN Normal(Mem(kind, ptr, length)) ELSE Thrown
        EXCEPT !.reads = <<[kind |-> kind, ptr |-> ptr, length |-> length]>>]

\* Memory.read*(ptr, length.value), unless evaluating the length raised
readWithLength(kind, ptr, length) ==
    IF length.raised THEN Thrown ELSE memoryRead(kind, ptr, asLength(length.value))

\* pointee.read(ptr, parameters) of byteArray, utf8 and utf16, and of
\* pointer(int()), whose pointee reads with Memory.readInt(ptr)
readPointee(base, ptr, parameters) ==
    IF base = "intPointer" THEN memoryRead("int", ptr, 0)
    ELSE IF base = "byteArray" THEN readWithLength("bytes", ptr, lengthOf(parameters))
    ELSE IF ~parameters.defined THEN memoryRead(base, ptr, -1)
    ELSE readWithLength(base, ptr, lengthOf(parameters))

\* parse of the pointer types without the isNull test
parseNoNullCheck(base, rawValue, parameters) ==
    IF ~rawValue.defined THEN Thrown
    ELSE CASE base = "bool" -> Normal(BoolVal(toInt32(rawValue.word) # 0))
           [] base = "byte" -> Normal(IntVal(toInt32(rawValue.word) % 256))
           [] base = "short" -> Normal(IntVal(toInt32(rawValue.word) % 65536))
           [] base = "int" -> Normal(IntVal(toInt32(rawValue.word)))
           [] base = "pointer" -> Normal(PtrVal(rawValue.word))
           [] OTHER -> readPointee(base, rawValue.word, parameters)

\* type.parse(rawValue, parameters); a raw value that is undefined (a read
\* past the end of the values array) raises on the method call
parse(base, rawValue, parameters) ==
    IF ~rawValue.defined THEN Thrown
    ELSE CASE base = "bool" -> Normal(BoolVal(toInt32(rawValue.word) # 0))
           [] base = "byte" -> Normal(IntVal(toInt32(rawValue.word) % 256))
           [] base = "short" -> Normal(IntVal(toInt32(rawValue.word) % 65536))
           [] base = "int" -> Normal(IntVal(toInt32(rawValue.word)))
           [] base = "pointer" -> Normal(PtrVal(rawValue.word))
           [] OTHER -> IF rawValue.word = 0 THEN Normal(Null)
                       ELSE readPointee(base, rawValue.word, parameters)

\* The user predicates of the model:
\*   "gt0"   x => x > 0
\*   "len"   x => x.length >= 0    (raises on undefined and null)
predicate(p, x) ==
    CASE p = "gt0" -> Normal(BoolVal(x.t \in {"int", "bool"} /\ x.v > 0))
      [] p = "len" -> IF x.t \in {"undefined", "null"} THEN Thrown
                      ELSE Normal(BoolVal(x.t \in {"utf8", "utf16", "bytes"}))
      [] OTHER -> Thrown

NoArgs == [k \in {} |-> Undefined]

Event(name) == [name |-> name, args |-> NoArgs, hasResult |-> FALSE, result |-> Undefined]

EventGet(event, key) ==
    IF key = "result" THEN event.result
    ELSE IF key \in DOMAIN event.args THEN event.args[key] ELSE Undefined

EventSet(event, key, value) ==
    IF key = "result"
    THEN [event EXCEPT !.hasResult = TRUE, !.result = value]
    ELSE [event EXCEPT !.args = [k \in (DOMAIN event.args) \cup {key} |->
                                   IF k = key THEN value ELSE event.args[k]]]

\* the names an event has a field for
EventFields(event) == (DOMAIN event.args) \cup (IF event.hasResult THEN {"result"} ELSE {})

(***************************************************************************)
(* The decode actions.  Each yields whether it raised and the event it     *)
(* leaves.                                                                 *)
(***************************************************************************)
\* values[index]: a raw word, or undefined past the end of the array
valueAt(values, index) ==
    IF index + 1 \in DOMAIN values THEN [defined |-> TRUE, word |-> values[index + 1]]
    ELSE [defined |-> FALSE, word |-> 0]

Raised(event) == [raised |-> TRUE, event |-> event]
Done(event) == [raised |-> FALSE, event |-> event]

\* event.set(name, r) for the outcome r of a parse
setParsed(event, name, r) ==
    IF r.raised THEN Raised(event) ELSE Done(EventSet(event, name, r.value))

\* if (c) { decode } with the test of the predicate's result left out
ifHoldsAlways(c, event, decode) ==
    IF c.raised THEN Raised(event) ELSE decode

\* if (c) { decode }, for the outcome c of the predicate
ifHolds(c, event, decode) ==
    IF c.raised THEN Raised(event)
    ELSE IF c.value.v = 1 THEN decode
    ELSE Done(event)

readValue(values, event, params) ==
    setParsed(event, params.name,
              parse(params.parse, valueAt(values, params.index), NoParameters))

readValueConditionally(values, event, params) ==
    ifHolds(predicate(params.condition.predicate, EventGet(event, params.condition.value)),
            event, readValue(values, event, params))

readValueWithDependentType(values, event, params) ==
    setParsed(event, params.name,
              parse(params.parse, valueAt(values, params.index),
                    Parameters(params.binding.property,
                               EventGet(event, params.binding.value))))

readValueWithDependentTypeConditionally(values, event, params) ==
    ifHolds(predicate(params.condition.predicate, EventGet(event, params.condition.value)),
            event, readValueWithDependentType(values, event, params))

\* action(values, event, params) for a compiled [action, params] pair
callAction(a, values, event) ==
    CASE a.action = "readValue" -> readValue(values, event, a)
      [] a.action = "readValueConditionally" -> readValueConditionally(values, event, a)
      [] a.action = "readValueWithDependentType" -> readValueWithDependentType(values, event, a)
      [] OTHER -> readValueWithDependentTypeConditionally(values, event, a)

\* for (i = 0; i !== numActions; i++) action(values, event, params), from the
\* i-th action on; the log gets one entry per action called.  afterAction
\* takes the outcome r of the i-th action: a raise ends the loop.
RECURSIVE runActions(_, _, _, _, _, _)
RECURSIVE afterAction(_, _, _, _, _, _)
afterAction(actions, i, values, r, log, window) ==
    IF r.raised THEN [raised |-> TRUE, event |-> r.event, log |-> log]
    ELSE runActions(actions, i + 1, values, r.event, log, window)

runActions(actions, i, values, event, log, window) ==
    IF i > Len(actions) THEN [raised |-> FALSE, event |-> event, log |-> log]
    ELSE afterAction(actions, i, values, callAction(actions[i], values, event),
                     Append(log, <<window, actions[i].name>>), window)

(***************************************************************************)
(* The interception binder.                                                *)
(***************************************************************************)
attach(st, f, impl, idx, r) ==
    [st EXCEPT !.hooks =
        Append(@, [impl |-> impl, idx |-> idx, name |-> f.name, numArgs |-> Len(f.args),
                   inputActions |-> r.inputActions, outputActions |-> r.outputActions])]

report(st, kind, name, idx) ==
    [st EXCEPT !.errors = Append(@, [kind |-> kind, name |-> name, idx |-> idx])]

\* the rest of the closure that goes on to attach after reporting the error
afterComputeActionsAttachAlways(st, f, impl, idx, r) ==
    IF ~r.ok THEN attach(report(st, "circular", f.name, idx), f, impl, idx, r)
    ELSE attach(st, f, impl, idx, r)

\* The rest of the closure makeInterceptor returns, after computeActions
\* returned r: report and return, or Interceptor.attach.
afterComputeActions(st, f, impl, idx, r) ==
    IF ~r.ok THEN report(st, "circular", f.name, idx)
    ELSE attach(st, f, impl, idx, r)

\* The closure makeInterceptor returns, applied to (func, impl); st holds the
\* onError reports and Interceptor.attach calls made so far, idx is the
\* position of func in spec.functions.
intercept(st, f, impl, idx) == afterComputeActions(st, f, impl, idx, computeActions(f))

\* A user hook of spec.callbacks is not supplied, or is a function that
\* returns, or is a function that raises.
UNDEFINED == "undefined"
HookBehaviours == {UNDEFINED, "returns", "raises"}

\* The rest of onEnter after its loop, whose outcome is r: the user's hook,
\* then this.values = values and this.event = event (stored), unless the
\* loop or the hook raised.
afterInputActions(r, values, callbacks) ==
    IF r.raised
    THEN [raised |-> "action", stored |-> FALSE, values |-> values, event |-> r.event,
          log |-> r.log]
    ELSE IF callbacks.onEnter = UNDEFINED
    THEN [raised |-> "no", stored |-> TRUE, values |-> values, event |-> r.event,
          log |-> r.log]
    ELSE [raised |-> IF callbacks.onEnter = "raises" THEN "hook" ELSE "no",
          stored |-> callbacks.onEnter # "raises",
          values |-> values, event |-> r.event,
          log |-> Append(r.log, <<"hook", "onEnter">>)]

\* onEnter that captures every word of args
onEnterCapturesAll(hook, args, callbacks) ==
    afterInputActions(
        runActions(hook.inputActions, 1, args, Event(hook.name), <<>>, "entry"),
        args, callbacks)

\* What onEnter(args) does: the values and the event it builds, whether it
\* raised (and then never stored them on this), and the steps it took.
onEnter(hook, args, callbacks) ==
    afterInputActions(
        runActions(hook.inputActions, 1, [i \in 1..hook.numArgs |-> args[i]],
                   Event(hook.name), <<>>, "entry"),
        [i \in 1..hook.numArgs |-> args[i]], callbacks)

\* the rest of onLeave that calls onEvent before the user's onLeave hook
afterOutputActionsEventFirst(r, values, callbacks) ==
    IF r.raised
    THEN [raised |-> "action", values |-> values, event |-> r.event, deliver |-> 0,
          log |-> r.log]
    ELSE IF callbacks.onLeave = UNDEFINED
    THEN [raised |-> "no", values |-> values, event |-> r.event, deliver |-> 1,
          log |-> Append(r.log, <<"sink", "onEvent">>)]
    ELSE [raised |-> IF callbacks.onLeave = "raises" THEN "hook" ELSE "no",
          values |-> values, event |-> r.event, deliver |-> 1,
          log |-> Append(Append(r.log, <<"sink", "onEvent">>), <<"hook", "onLeave">>)]

\* the rest of onLeave that calls onEvent even when an action or the hook raised
afterOutputActionsAlwaysDelivers(r, values, callbacks) ==
    IF r.raised
    THEN [raised |-> "action", values |-> values, event |-> r.event, deliver |-> 1,
          log |-> Append(r.log, <<"sink", "onEvent">>)]
    ELSE IF callbacks.onLeave = UNDEFINED
    THEN [raised |-> "no", values |-> values, event |-> r.event, deliver |-> 1,
          log |-> Append(r.log, <<"sink", "onEvent">>)]
    ELSE [raised |-> IF callbacks.onLeave = "raises" THEN "hook" ELSE "no",
          values |-> values, event |-> r.event, deliver |-> 1,
          log |-> Append(Append(r.log, <<"hook", "onLeave">>), <<"sink", "onEvent">>)]

\* The rest of onLeave after its loop, whose outcome is r: the user's hook,
\* then onEvent(event), unless the loop or the hook raised.  deliver counts
\* the calls of onEvent.
afterOutputActions(r, values, callbacks) ==
    IF r.raised
    THEN [raised |-> "action", values |-> values, event |-> r.event, deliver |-> 0,
          log |-> r.log]
    ELSE IF callbacks.onLeave = UNDEFINED
    THEN [raised |-> "no", values |-> values, event |-> r.event, deliver |-> 1,
          log |-> Append(r.log, <<"sink", "onEvent">>)]
    ELSE IF callbacks.onLeave = "raises"
    THEN [raised |-> "hook", values |-> values, event |-> r.event, deliver |-> 0,
          log |-> Append(r.log, <<"hook", "onLeave">>)]
    ELSE [raised |-> "no", values |-> values, event |-> r.event, deliver |-> 1,
          log |-> Append(Append(r.log, <<"hook", "onLeave">>), <<"sink", "onEvent">>)]

\* What onLeave(retval) does with the context `this`: the values array and
\* the event as it leaves them, whether it raised (in values.push on a context
\* onEnter stored nothing on, in an action or a predicate, in the hook), how
\* often it called onEvent, and the steps it took.
onLeave(hook, this, retword, callbacks) ==
    IF ~this.set
    THEN [raised |-> "push", values |-> this.values, event |-> this.event,
          deliver |-> 0, log |-> <<>>]
    ELSE afterOutputActions(
             runActions(hook.outputActions, 1, Append(this.values, retword),
                        this.event, <<>>, "exit"),
             Append(this.values, retword), callbacks)

\* one context shared by every invocation, in place of this
contextShared(id) == 0

\* `this` in onEnter and onLeave: the context of the invocation itself
context(id) == id

NoThis == [set |-> FALSE, values |-> <<>>, event |-> Event(NONE)]

(***************************************************************************)
(* The target resolver.                                                    *)
(***************************************************************************)
pointerSize == 8

NullFunc == funcOf(NONE, NullRet, <<>>)

padding(n) == [isPadding |-> TRUE, n |-> n, func |-> NullFunc]
Entry(f) == [isPadding |-> FALSE, n |-> 0, func |-> f]

\* the address Module.findExportByName returns for an exported name
ExportAddress(name) ==
    CASE name = "read" -> 4096 [] name = "loop" -> 4112 [] name = "stat" -> 4128
      [] name = "copy" -> 4144 [] name = "scan" -> 4160
      [] name = "recv" -> 4176 [] OTHER -> 4192

\* the pointer stored in the vtable slot at `offset`
SlotValue(offset) == 8192 + offset

\* by-name mode that gives up at the first name it cannot resolve
RECURSIVE traceByNameStopsAtUnresolved(_, _, _, _)
traceByNameStopsAtUnresolved(st, functions, i, exports) ==
    IF i > Len(functions) THEN st
    ELSE LET f == functions[i].func
         IN  IF f.name \notin exports
             THEN [st EXCEPT !.errors =
                      Append(@, [kind |-> "resolve", name |-> f.name, idx |-> i])]
             ELSE traceByNameStopsAtUnresolved(intercept(st, f, ExportAddress(f.name), i),
                                               functions, i + 1, exports)

\* functions.forEach(func => ...) of by-name mode, from the i-th entry on
RECURSIVE traceByName(_, _, _, _)
traceByName(st, functions, i, exports) ==
    IF i > Len(functions) THEN st
    ELSE LET f == functions[i].func
         IN  IF f.name \notin exports
             THEN traceByName([st EXCEPT !.errors =
                                  Append(@, [kind |-> "resolve", name |-> f.name, idx |-> i])],
                              functions, i + 1, exports)
             ELSE traceByName(intercept(st, f, ExportAddress(f.name), i),
                              functions, i + 1, exports)

\* by-vtable mode whose padding markers advance the offset by n bytes
RECURSIVE traceByVtablePaddingUnscaled(_, _, _, _, _)
traceByVtablePaddingUnscaled(st, functions, i, offset, readable) ==
    IF i > Len(functions) THEN st
    ELSE IF functions[i].isPadding
    THEN traceByVtablePaddingUnscaled(st, functions, i + 1, offset + functions[i].n, readable)
    ELSE LET st1 == [st EXCEPT !.reads = Append(@, offset)]
         IN  IF offset \notin readable
             THEN [st1 EXCEPT !.errors =
                      Append(@, [kind |-> "vtable", name |-> NONE, idx |-> i])]
             ELSE traceByVtablePaddingUnscaled(
                      intercept(st1, functions[i].func, SlotValue(offset), i),
                      functions, i + 1, offset + pointerSize, readable)

\* by-vtable mode that reports an unreadable slot and goes on with the next entry
RECURSIVE traceByVtableContinues(_, _, _, _, _)
traceByVtableContinues(st, functions, i, offset, readable) ==
    IF i > Len(functions) THEN st
    ELSE IF functions[i].isPadding
    THEN traceByVtableContinues(st, functions, i + 1, offset + functions[i].n * pointerSize,
                                readable)
    ELSE LET st1 == [st EXCEPT !.reads = Append(@, offset)]
         IN  IF offset \notin readable
             THEN traceByVtableContinues(
                      [st1 EXCEPT !.errors =
                          Append(@, [kind |-> "vtable", name |-> NONE, idx |-> i])],
                      functions, i + 1, offset + pointerSize, readable)
             ELSE traceByVtableContinues(
                      intercept(st1, functions[i].func, SlotValue(offset), i),
                      functions, i + 1, offset + pointerSize, readable)

\* for (let entry of functions) of by-vtable mode, from the i-th entry on
RECURSIVE traceByVtable(_, _, _, _, _)
traceByVtable(st, functions, i, offset, readable) ==
    IF i > Len(functions) THEN st
    ELSE IF functions[i].isPadding
    THEN traceByVtable(st, functions, i + 1, offset + functions[i].n * pointerSize, readable)
    ELSE LET st1 == [st EXCEPT !.reads = Append(@, offset)]
         IN  IF offset \notin readable
             THEN [st1 EXCEPT !.errors =
                      Append(@, [kind |-> "vtable", name |-> NONE, idx |-> i])]
             ELSE traceByVtable(intercept(st1, functions[i].func, SlotValue(offset), i),
                                functions, i + 1, offset + pointerSize, readable)

NoSetup == [errors |-> <<>>, reads |-> <<>>, hooks |-> <<>>, thrown |-> FALSE]

\* trace that walks the functions by name before it finds no locator
traceThrowsAfterWalk(sp, e) ==
    IF sp.module # NONE THEN traceByName(NoSetup, sp.functions, 1, e.exports)
    ELSE IF sp.vtable # NONE THEN traceByVtable(NoSetup, sp.functions, 1, 0, e.readable)
    ELSE [traceByName(NoSetup, sp.functions, 1, e.exports) EXCEPT !.thrown = TRUE]

\* trace that tests the vtable locator before the module
traceVtableFirst(sp, e) ==
    IF sp.vtable # NONE THEN traceByVtable(NoSetup, sp.functions, 1, 0, e.readable)
    ELSE IF sp.module # NONE THEN traceByName(NoSetup, sp.functions, 1, e.exports)
    ELSE [NoSetup EXCEPT !.thrown = TRUE]

\* trace(spec) in the process e
trace(sp, e) ==
    IF sp.module # NONE THEN traceByName(NoSetup, sp.functions, 1, e.exports)
    ELSE IF sp.vtable # NONE THEN traceByVtable(NoSetup, sp.functions, 1, 0, e.readable)
    ELSE [NoSetup EXCEPT !.thrown = TRUE]

(***************************************************************************)
(* The functions traced in the model.                                      *)
(***************************************************************************)
ReadFunc ==
    funcOf("read", retval(PlainType("int"), NoCondition),
           <<argIn("a", PlainType("int"), NoCondition),
             argOut("b", DependentType("utf8", bind("length", "a")), when("result", "gt0"))>>)

StatFunc ==
    funcOf("stat", retval(PlainType("int"), when("b", "len")),
           <<argIn("a", PlainType("int"), NoCondition),
             argInOut("b", PlainType("utf8"), when("a", "gt0"))>>)

CopyFunc ==
    funcOf("copy", retval(PlainType("int"), when("b", "gt0")),
           <<argIn("a", DependentType("utf8", bind("length", "b")), NoCondition),
             argIn("b", PlainType("int"), NoCondition)>>)

\* two conditions that name each other
LoopFunc ==
    funcOf("loop", NullRet,
           <<argIn("a", PlainType("int"), when("b", "gt0")),
             argIn("b", PlainType("int"), when("a", "gt0"))>>)

\* a dependent type bound to a value that depends on the dependent value
ScanFunc ==
    funcOf("scan", retval(PlainType("int"), NoCondition),
           <<argIn("a", DependentType("utf8", bind("length", "b")), NoCondition),
             argOut("b", PlainType("int"), when("a", "len"))>>)

\* one entry action, no exit action
RecvFunc == funcOf("recv", NullRet, <<argIn("a", PlainType("utf8"), NoCondition)>>)

\* no entry action, one exit action
PollFunc == funcOf("poll", retval(PlainType("utf8"), NoCondition), <<>>)

Catalogue == {ReadFunc, StatFunc, CopyFunc, LoopFunc, ScanFunc}

(***************************************************************************)
(* The schemas the compiler is checked on: up to MaxArgs argument          *)
(* descriptors named by position, an optional return-value descriptor, any *)
(* direction for each argument, and up to MaxDeps conditions and bindings  *)
(* whose source is any descriptor of the schema or the dangling name.      *)
(***************************************************************************)
Slots(n, hasRet) ==
    {<<i, k>> : i \in 1..(n + (IF hasRet THEN 1 ELSE 0)), k \in {"bind", "cond"}}

Sources(n, hasRet) ==
    {ArgNames[i] : i \in 1..n} \cup (IF hasRet THEN {"result"} ELSE {}) \cup {Dangling}

TypeAt(i, deps) ==
    IF <<i, "bind">> \in DOMAIN deps
    THEN DependentType("utf8", bind("length", deps[<<i, "bind">>]))
    ELSE PlainType("int")

ConditionAt(i, deps) ==
    IF <<i, "cond">> \in DOMAIN deps THEN when(deps[<<i, "cond">>], "gt0") ELSE NoCondition

SchemaOf(n, hasRet, dirs, deps) ==
    funcOf("f",
           IF hasRet THEN retval(TypeAt(n + 1, deps), ConditionAt(n + 1, deps)) ELSE NullRet,
           [i \in 1..n |-> arg(dirs[i], ArgNames[i], TypeAt(i, deps), ConditionAt(i, deps))])

NoCall == [base |-> NONE, rawValue |-> [defined |-> FALSE, word |-> 0],
           parameters |-> NoParameters]
NotReturned == [done |-> FALSE, result |-> Thrown]

NotCompiled ==
    [ok |-> FALSE, inputActions |-> <<>>, outputActions |-> <<>>, scans1 |-> 0, scans2 |-> 0,
     args |-> <<>>]

InitCompile ==
    /\ \E n \in 0..MaxArgs, hasRet \in BOOLEAN :
         \E dirs \in [1..n -> Directions] :
           \E D \in {d \in SUBSET Slots(n, hasRet) : Cardinality(d) <= MaxDeps} :
             \E deps \in [D -> Sources(n, hasRet)] :
               func = SchemaOf(n, hasRet, dirs, deps)
    /\ compiled = [done |-> FALSE, result |-> NotCompiled]
    /\ recompiled = [done |-> FALSE, result |-> NotCompiled]
    /\ call = NoCall /\ returned = NotReturned
    /\ spec = NONE /\ env = NONE /\ tracePc = "off"
    /\ errors = <<>> /\ reads = <<>> /\ hooks = <<>>
    /\ invs = <<>> /\ stacks = <<>> /\ thisOf = <<>>
    /\ delivered = <<>> /\ uncaught = <<>>

\* computeActions(func, inputActions, outputActions) on two fresh lists
Compile ==
    /\ ~compiled.done
    /\ \E r \in {computeActions(func)} :
         /\ compiled' = [done |-> TRUE, result |-> r]
         /\ func' = [func EXCEPT !.args = r.args]
    /\ UNCHANGED <<recompiled, pvars, tvars, rvars>>

\* The closure makeInterceptor returns, applied to the schema compiled
\* before and the address of its export: computeActions on two fresh lists
\* of its own, then the report or the attach.
Bind ==
    /\ compiled.done /\ ~recompiled.done
    /\ \E r \in {computeActions(func)} :
         /\ recompiled' = [done |-> TRUE, result |-> r]
         /\ func' = [func EXCEPT !.args = r.args]
         /\ \E st \in {afterComputeActions(NoSetup, func, ExportAddress(func.name), 1, r)} :
              errors' = st.errors /\ hooks' = st.hooks
    /\ UNCHANGED <<compiled, pvars, spec, env, tracePc, reads, rvars>>

NextCompile == Compile \/ Bind

SpecCompile == InitCompile /\ [][NextCompile]_vars

(***************************************************************************)
(* The calls of parse the value types are checked on: every type, raw      *)
(* words that are null, readable, unreadable or wider than a byte or a     *)
(* short, a missing raw value, and type parameters of every shape.         *)
(***************************************************************************)
Bases == {"bool", "byte", "short", "int", "pointer", "intPointer",
          "byteArray", "utf8", "utf16"}

RawValues ==
    {[defined |-> TRUE, word |-> w] : w \in Words \cup {257, 65537, 2147483647}}
    \cup {[defined |-> FALSE, word |-> 0]}

ParameterChoices ==
    {NoParameters, Parameters("size", IntVal(1))}
    \cup {Parameters("length", v) : v \in {IntVal(0), IntVal(1), Undefined, Null}}

InitParse ==
    /\ call \in [base : Bases, rawValue : RawValues, parameters : ParameterChoices]
    /\ returned = NotReturned
    /\ func = NullFunc
    /\ compiled = [done |-> FALSE, result |-> NotCompiled]
    /\ recompiled = [done |-> FALSE, result |-> NotCompiled]
    /\ spec = NONE /\ env = NONE /\ tracePc = "off"
    /\ errors = <<>> /\ reads = <<>> /\ hooks = <<>>
    /\ invs = <<>> /\ stacks = <<>> /\ thisOf = <<>>
    /\ delivered = <<>> /\ uncaught = <<>>

\* type.parse(rawValue, parameters)
Parse ==
    /\ ~returned.done
    /\ call # NoCall
    /\ returned' = [done |-> TRUE,
                    result |-> parse(call.base, call.rawValue, call.parameters)]
    /\ UNCHANGED <<call, cvars, tvars, rvars>>

NextParse == Parse

SpecParse == InitParse /\ [][NextParse]_vars

(***************************************************************************)
(* trace(spec), and the calls the traced program makes afterwards.         *)
(***************************************************************************)
Threads == {1, 2}

FunctionNames == {f.name : f \in Catalogue}
SlotOffsets == {k * pointerSize : k \in 0..(MaxFuncs + MaxPadding - 1)}

FuncEntries == {Entry(f) : f \in Catalogue}
PaddingEntries == {padding(n) : n \in 1..MaxPadding}

EntryLists(entries) == UNION {[1..n -> entries] : n \in 0..MaxFuncs}

NoCompile == [done |-> FALSE, result |-> NotCompiled]

InitRuntime ==
    /\ tracePc = "init"
    /\ errors = <<>> /\ reads = <<>> /\ hooks = <<>>
    /\ invs = <<>> /\ stacks = [t \in Threads |-> <<>>] /\ thisOf = <<>>
    /\ delivered = <<>> /\ uncaught = <<>>
    /\ func = NullFunc /\ compiled = NoCompile /\ recompiled = NoCompile
    /\ call = NoCall /\ returned = NotReturned

\* Any configuration: a module, a vtable, both or neither; any list of up to
\* MaxFuncs entries (padding markers in a vtable layout only); any set of
\* exported names and of readable vtable slots.
InitTrace ==
    /\ InitRuntime
    /\ \E m \in {NONE, "libc"}, v \in {NONE, "vtbl"} :
         /\ \E fs \in EntryLists(IF m = NONE THEN FuncEntries \cup PaddingEntries
                                 ELSE FuncEntries) :
              spec = [module |-> m, vtable |-> v, functions |-> fs,
                      callbacks |-> [onEnter |-> "returns", onLeave |-> "returns"]]
         /\ \E ex \in (IF m = NONE THEN {FunctionNames} ELSE SUBSET FunctionNames),
               rd \in (IF v = NONE THEN {SlotOffsets} ELSE SUBSET SlotOffsets) :
              env = [exports |-> ex, readable |-> rd]

\* The four functions of the catalogue traced by name, all of them exported;
\* the optional hooks onEnter and onLeave each supplied or not.
Init ==
    /\ InitRuntime
    /\ \E e, l \in HookBehaviours :
         spec = [module |-> "libc", vtable |-> NONE,
                 functions |-> <<Entry(ReadFunc), Entry(LoopFunc), Entry(StatFunc),
                                 Entry(CopyFunc)>>,
                 callbacks |-> [onEnter |-> e, onLeave |-> l]]
    /\ env = [exports |-> FunctionNames, readable |-> SlotOffsets]

\* Two small functions traced by name, for the interleavings of their calls.
InitThreads ==
    /\ InitRuntime
    /\ \E e, l \in HookBehaviours :
         spec = [module |-> "libc", vtable |-> NONE,
                 functions |-> <<Entry(RecvFunc), Entry(PollFunc)>>,
                 callbacks |-> [onEnter |-> e, onLeave |-> l]]
    /\ env = [exports |-> {"recv", "poll"}, readable |-> SlotOffsets]

\* trace(spec), from its first line to its return or its throw
Trace ==
    /\ tracePc = "init"
    /\ LET st == trace(spec, env)
       IN  /\ tracePc' = IF st.thrown THEN "thrown" ELSE "done"
           /\ errors' = st.errors
           /\ reads' = st.reads
           /\ hooks' = st.hooks
    /\ UNCHANGED <<spec, env, cvars, pvars, rvars>>

\* the raw words a call passes for a value of type `base`
WordsFor(base) ==
    IF base \in {"utf8", "utf16", "byteArray"} THEN Words ELSE {w \in Words : w <= 1}

\* the raw argument words of a call of f, and its raw return words
ArgWords(f) == {args \in [1..Len(f.args) -> Words] :
                  \A i \in 1..Len(f.args) : args[i] \in WordsFor(f.args[i].type.base)}
RetWords(f) == IF f.ret # NullRet THEN WordsFor(f.ret.type.base) ELSE WordsFor(NONE)

\* the word the host's args holds after the declared arguments
StrayWord == 2

\* Thread t calls the function hooks[h] is attached to (from the program, or
\* from inside the body of the call it is in): the host runs onEnter(args),
\* where args holds the words of the declared arguments (kept as the
\* invocation's args) and goes on beyond them (passed is what onEnter gets).
\* At most `limit` invocations are started.
Call(t, limit) ==
    /\ tracePc = "done"
    /\ Len(invs) < limit
    /\ \E h \in 1..Len(hooks) :
         \E args \in ArgWords(spec.functions[hooks[h].idx].func) :
           \E id \in {Len(invs) + 1},
              r \in {onEnter(hooks[h], Append(args, StrayWord), spec.callbacks)} :
             /\ invs' = Append(invs, [hook |-> h, thread |-> t, args |-> args,
                                      passed |-> Append(args, StrayWord),
                                      retval |-> 0, state |-> "entered",
                                      enterRaised |-> r.raised, leaveRaised |-> "no",
                                      made |-> [values |-> r.values, event |-> r.event],
                                      seen |-> NoThis,
                                      log |-> r.log])
             /\ thisOf' = [k \in (DOMAIN thisOf) \cup {context(id)} |->
                             IF k # context(id) THEN thisOf[k]
                             ELSE IF r.stored
                                  THEN [set |-> TRUE, values |-> r.values, event |-> r.event]
                                  ELSE IF k \in DOMAIN thisOf THEN thisOf[k] ELSE NoThis]
             /\ stacks' = [stacks EXCEPT ![t] = Append(@, id)]
             /\ uncaught' = IF r.raised # "no"
                            THEN Append(uncaught, [inv |-> id, at |-> "onEnter"])
                            ELSE uncaught
    /\ UNCHANGED <<delivered, cvars, pvars, tvars>>

\* The innermost call of thread t returns the word retword: its body has
\* run, and the host runs onLeave(retval).
Leave(t) ==
    /\ stacks[t] # <<>>
    /\ \E id \in {stacks[t][Len(stacks[t])]} :
         \E retword \in RetWords(spec.functions[hooks[invs[id].hook].idx].func) :
           \E r \in {onLeave(hooks[invs[id].hook], thisOf[context(id)], retword,
                              spec.callbacks)} :
             /\ invs' = [invs EXCEPT ![id].state = "left",
                                     ![id].retval = retword,
                                     ![id].leaveRaised = r.raised,
                                     ![id].seen = thisOf[context(id)],
                                     ![id].log = (@ \o <<<<"body", "call">>>>) \o r.log]
             /\ thisOf' = [thisOf EXCEPT ![context(id)].values = r.values,
                                         ![context(id)].event = r.event]
             /\ delivered' = delivered \o [k \in 1..r.deliver |-> [inv |-> id, event |-> r.event]]
             /\ uncaught' = IF r.raised # "no"
                            THEN Append(uncaught, [inv |-> id, at |-> "onLeave"])
                            ELSE uncaught
    /\ stacks' = [stacks EXCEPT ![t] = SubSeq(@, 1, Len(@) - 1)]
    /\ UNCHANGED <<cvars, pvars, tvars>>

NextTrace == Trace

SpecTrace == InitTrace /\ [][NextTrace]_vars

Next ==
    \/ Trace
    \/ \E t \in Threads : Call(t, MaxCalls)
    \/ \E t \in Threads : Leave(t)

Spec == Init /\ [][Next]_vars

NextThreads ==
    \/ Trace
    \/ \E t \in Threads : Call(t, MaxInvocations)
    \/ \E t \in Threads : Leave(t)

SpecThreads == InitThreads /\ [][NextThreads]_vars

(***************************************************************************)
(* Vocabulary of the compiler's properties, read off the descriptors'      *)
(* fields (never off their requires lists).                                *)
(***************************************************************************)
SeqRange(q) == {q[i] : i \in 1..Len(q)}

Descriptors(f) == SeqRange(allArgs(f))

UniqueNames(f) ==
    \A i, j \in 1..Len(allArgs(f)) : allArgs(f)[i].name = allArgs(f)[j].name => i = j

\* the names a descriptor's condition and type-parameter binding read
SourcesOf(d) ==
    (IF d.type.isArray THEN {d.type.binding.value} ELSE {})
    \cup (IF d.condition # NoCondition THEN {d.condition.value} ELSE {})

\* the descriptors whose sources all lie in the set of names `known`
Closed(f, known) == {d \in Descriptors(f) : SourcesOf(d) \subseteq known}

RECURSIVE Satisfiable(_, _, _)
Satisfiable(f, known, k) ==
    IF k = 0 THEN known
    ELSE Satisfiable(f, {d.name : d \in Closed(f, known)}, k - 1)

\* no circular dependency: every descriptor is reached from the descriptors
\* without sources by following sources that are themselves reached
NonCircular(f) ==
    Satisfiable(f, {}, Len(allArgs(f))) = {d.name : d \in Descriptors(f)}

\* d reads, directly or through other descriptors, a value of an Out descriptor
RECURSIVE ReachesOut(_, _, _)
ReachesOut(f, d, k) ==
    \/ d.direction = OUT
    \/ /\ k > 0
       /\ \E e \in Descriptors(f) : e.name \in SourcesOf(d) /\ ReachesOut(f, e, k - 1)

NamesOf(actions) == {actions[i].name : i \in 1..Len(actions)}

AllActions(r) == r.inputActions \o r.outputActions

\* positions of the actions that decode `name` in the entry list followed by the exit list
PositionsOf(r, name) == {i \in 1..Len(AllActions(r)) : AllActions(r)[i].name = name}

\* C1: a schema with unique names and no circular dependency compiles, and
\* its entry and exit actions together are one per descriptor, the return
\* value included.
C1_NonCircularCompiles ==
    (compiled.done /\ UniqueNames(func) /\ NonCircular(func))
        => /\ compiled.result.ok
           /\ Len(compiled.result.inputActions) + Len(compiled.result.outputActions)
                = Len(func.args) + (IF func.ret # NullRet THEN 1 ELSE 0)

C1_Witness ==
    /\ compiled.done /\ UniqueNames(func) /\ NonCircular(func)
    /\ Len(func.args) = 2 /\ func.ret # NullRet
    /\ func.args[1].condition # NoCondition
    /\ func.ret.type.isArray
    /\ Len(compiled.result.inputActions) = 1
    /\ Len(compiled.result.outputActions) = 2

\* C3: in the entry list followed by the exit list of a compiled schema, the
\* action of a descriptor with a condition or a binding comes strictly after
\* the action of the descriptor its condition or binding names.
C3_SourcesDecodedFirst ==
    (compiled.done /\ compiled.result.ok)
        => \A d \in Descriptors(func) : \A s \in SourcesOf(d) :
             /\ PositionsOf(compiled.result, s) # {}
             /\ \A i \in PositionsOf(compiled.result, s) :
                  \A j \in PositionsOf(compiled.result, d.name) : i < j

C3_Witness ==
    /\ compiled.done /\ compiled.result.ok
    /\ Len(func.args) = 2
    /\ func.args[1].condition # NoCondition /\ func.args[1].condition.value = "b"
    /\ func.args[1].direction = IN_ /\ func.args[2].direction = IN_
    /\ func.ret # NullRet /\ func.ret.type.isArray /\ func.ret.type.binding.value = "a"
    /\ Len(compiled.result.inputActions) = 2
    /\ compiled.result.inputActions[1].name = "b"
    /\ compiled.result.inputActions[2].name = "a"

\* C4: no entry action decodes an Out descriptor or a descriptor that reads,
\* directly or transitively, a value of an Out descriptor; when the schema
\* compiles, each of them has its action in the exit list.
C4_OutOnlyAtExit ==
    compiled.done
        => \A d \in Descriptors(func) :
             ReachesOut(func, d, Len(allArgs(func)))
               => /\ d.name \notin NamesOf(compiled.result.inputActions)
                  /\ compiled.result.ok => d.name \in NamesOf(compiled.result.outputActions)

C4_Witness ==
    /\ compiled.done /\ compiled.result.ok
    /\ Len(func.args) = 2
    /\ func.args[1].direction = IN_ /\ func.args[1].condition.value = "b"
    /\ func.args[2].direction = IN_OUT /\ func.args[2].condition.value = "result"
    /\ func.ret # NullRet
    /\ compiled.result.inputActions = <<>>
    /\ Len(compiled.result.outputActions) = 3

\* C5: every Out or InOut descriptor has "$out" in its requires list and is
\* decoded by no entry action.
C5_InOutRequiresOut ==
    compiled.done
        => \A d \in Descriptors(func) :
             d.direction \in {OUT, IN_OUT}
               => /\ "$out" \in SeqRange(d.requires)
                  /\ d.name \notin NamesOf(compiled.result.inputActions)

(***************************************************************************)
(* Vocabulary of the binder's and the resolver's properties.               *)
(***************************************************************************)
\* d reads, directly or through other descriptors, the value named target
RECURSIVE ReachesName(_, _, _, _)
ReachesName(f, d, target, k) ==
    \/ target \in SourcesOf(d)
    \/ /\ k > 0
       /\ \E e \in Descriptors(f) : e.name \in SourcesOf(d) /\ ReachesName(f, e, target, k - 1)

\* some descriptor of f reads its own value: a dependency cycle
HasCycle(f) == \E d \in Descriptors(f) : ReachesName(f, d, d.name, Len(allArgs(f)))

\* the vtable offset of the i-th entry: one pointer per function entry and
\* n pointers per padding marker before it
RECURSIVE OffsetOf(_, _)
OffsetOf(functions, i) ==
    IF i <= 1 THEN 0
    ELSE OffsetOf(functions, i - 1)
         + pointerSize * (IF functions[i - 1].isPadding THEN functions[i - 1].n ELSE 1)

\* the i-th entry of spec.functions is a function that trace hands to the binder
Bound(i) ==
    /\ ~spec.functions[i].isPadding
    /\ IF spec.module # NONE THEN spec.functions[i].func.name \in env.exports
       ELSE /\ spec.vtable # NONE
            /\ \A j \in 1..i : spec.functions[j].isPadding
                               \/ OffsetOf(spec.functions, j) \in env.readable

ErrorsAbout(i) == {k \in DOMAIN errors : errors[k].idx = i}
HooksOf(i) == {k \in DOMAIN hooks : hooks[k].idx = i}

\* C2: binding a function whose schema has a dependency cycle reports exactly
\* one error (the circular-dependency one) and attaches nothing for it; every
\* other function of the same trace that is bound and has no circular
\* dependency is attached once, without an error.
C2_CycleReportedOnceNotHooked ==
    tracePc = "done"
        => \A i \in DOMAIN spec.functions :
             Bound(i)
               => /\ HasCycle(spec.functions[i].func)
                       => /\ Cardinality(ErrorsAbout(i)) = 1
                          /\ \A k \in ErrorsAbout(i) : errors[k].kind = "circular"
                          /\ HooksOf(i) = {}
                  /\ NonCircular(spec.functions[i].func)
                       => /\ Cardinality(HooksOf(i)) = 1
                          /\ ErrorsAbout(i) = {}

C2_Witness ==
    /\ tracePc = "done"
    /\ spec.vtable # NONE /\ spec.module = NONE
    /\ Len(spec.functions) = 2
    /\ spec.functions[1] = Entry(ScanFunc) /\ spec.functions[2] = Entry(ReadFunc)
    /\ Bound(1) /\ Bound(2)
    /\ Len(errors) = 1 /\ errors[1].idx = 1
    /\ Len(hooks) = 1 /\ hooks[1].idx = 2

(***************************************************************************)
(* Vocabulary of the invocations' properties.                              *)
(***************************************************************************)
FuncOfHook(h) == spec.functions[hooks[h].idx].func

Failed(inv) == inv.enterRaised # "no" \/ inv.leaveRaised # "no"

DeliveriesOf(id) == {k \in DOMAIN delivered : delivered[k].inv = id}

\* the events the decode actions have worked on, each with its function
EventsInFlight ==
    {[f |-> FuncOfHook(invs[id].hook), event |-> thisOf[context(id)].event] :
        id \in {i \in DOMAIN invs : invs[i].enterRaised = "no"}}
EventsDelivered ==
    {[f |-> FuncOfHook(invs[delivered[k].inv].hook), event |-> delivered[k].event] :
        k \in DOMAIN delivered}

\* d's predicate, applied to the event's value of d's condition source, is false
PredicateFalse(d, event) ==
    /\ ~predicate(d.condition.predicate, EventGet(event, d.condition.value)).raised
    /\ predicate(d.condition.predicate, EventGet(event, d.condition.value)).value.v = 0

\* C6: a conditional descriptor whose predicate is false on the event's value
\* of the condition's source has no field in the event, in flight or delivered.
C6_FalseConditionAbsent ==
    \A x \in EventsInFlight \cup EventsDelivered :
        \A d \in Descriptors(x.f) :
            (d.condition # NoCondition /\ PredicateFalse(d, x.event))
                => d.name \notin EventFields(x.event)

\* read(a, b = 1) returning 0 is delivered without "b"
C6_Witness ==
    /\ Len(delivered) = 1
    /\ hooks[invs[delivered[1].inv].hook].name = "read"
    /\ invs[delivered[1].inv].args[2] = 1 /\ invs[delivered[1].inv].retval = 0
    /\ EventFields(delivered[1].event) = {"a", "result"}

ActionSteps(actions, window) == [i \in 1..Len(actions) |-> <<window, actions[i].name>>]

HookStep(behaviour, name) == IF behaviour = UNDEFINED THEN <<>> ELSE <<<<"hook", name>>>>

\* C7: an invocation in which nothing raised has taken these steps in this
\* order: the entry actions as compiled, the on-enter hook, the call body,
\* the exit actions as compiled, the on-leave hook, onEvent; its event was
\* handed to onEvent exactly once, and not before the invocation left.
C7_StepsInOrderEventOnce ==
    \A id \in DOMAIN invs :
        /\ invs[id].state = "entered" => DeliveriesOf(id) = {}
        /\ (invs[id].state = "left" /\ ~Failed(invs[id]))
             => /\ invs[id].log =
                     ActionSteps(hooks[invs[id].hook].inputActions, "entry")
                     \o HookStep(spec.callbacks.onEnter, "onEnter")
                     \o <<<<"body", "call">>>>
                     \o ActionSteps(hooks[invs[id].hook].outputActions, "exit")
                     \o HookStep(spec.callbacks.onLeave, "onLeave")
                     \o <<<<"sink", "onEvent">>>>
                /\ Cardinality(DeliveriesOf(id)) = 1

C7_Witness ==
    /\ spec.callbacks.onEnter = "returns" /\ spec.callbacks.onLeave = "returns"
    /\ \E id \in DOMAIN invs :
         /\ invs[id].state = "left" /\ ~Failed(invs[id])
         /\ hooks[invs[id].hook].name = "read"
         /\ Len(invs[id].log) = 7
         /\ Cardinality(DeliveriesOf(id)) = 1

\* the event the compiled actions of hook h decode from the raw words alone
DecodedFrom(h, args, retword) ==
    runActions(hooks[h].outputActions, 1, Append(args, retword),
               runActions(hooks[h].inputActions, 1, args, Event(hooks[h].name),
                          <<>>, "entry").event,
               <<>>, "exit").event

\* C8: whatever the interleaving and nesting of invocations, onLeave reads
\* the values array and the event that the onEnter of the same invocation
\* stored, and a delivered event is the one decoded from the raw argument
\* and return words of its own invocation.
C8_OwnStateOnly ==
    /\ \A id \in DOMAIN invs :
         invs[id].enterRaised = "no"
           => /\ invs[id].state = "entered"
                   => thisOf[context(id)] = [set |-> TRUE, values |-> invs[id].args,
                                    event |-> invs[id].made.event]
              /\ invs[id].state = "left"
                   => invs[id].seen = [set |-> TRUE, values |-> invs[id].args,
                                       event |-> invs[id].made.event]
    /\ \A k \in DOMAIN delivered :
         delivered[k].event =
             DecodedFrom(invs[delivered[k].inv].hook, invs[delivered[k].inv].args,
                         invs[delivered[k].inv].retval)

\* the later invocation, on another thread, leaves while the earlier one of
\* the same function is in flight, and then the earlier one leaves
C8_Witness ==
    /\ Len(delivered) = 2 /\ delivered[1].inv = 2 /\ delivered[2].inv = 1
    /\ invs[1].thread # invs[2].thread
    /\ invs[1].hook = invs[2].hook
    /\ invs[1].args # invs[2].args
    /\ delivered[1].event # delivered[2].event

\* C9: a decode action or a user predicate that raises during onEnter or
\* onLeave is reported to onError.
C9_RaiseReportedToOnError ==
    \A id \in DOMAIN invs :
        (invs[id].enterRaised = "action" \/ invs[id].leaveRaised = "action")
            => \E k \in DOMAIN errors : errors[k].kind = "decode" /\ errors[k].idx = id

\* C10: the event of an invocation in which an action or a hook raised is
\* never handed to onEvent; an invocation that left without a raise has its
\* event handed over exactly once, whatever happened to the invocations
\* before or around it; and the attached action lists stay the ones compiled.
C10_FailedNotDeliveredOthersOnce ==
    /\ \A id \in DOMAIN invs :
         /\ Failed(invs[id]) => DeliveriesOf(id) = {}
         /\ (invs[id].state = "left" /\ ~Failed(invs[id]))
              => Cardinality(DeliveriesOf(id)) = 1
    /\ \A h \in DOMAIN hooks :
         \E r \in {computeActions(FuncOfHook(h))} :
             /\ hooks[h].inputActions = r.inputActions
             /\ hooks[h].outputActions = r.outputActions

\* an exit action of the first invocation raised; the second, of the same
\* function and begun while the first was in flight, is delivered
C10_Witness ==
    /\ Len(invs) = 2
    /\ invs[1].leaveRaised = "action" /\ DeliveriesOf(1) = {}
    /\ invs[1].hook = invs[2].hook
    /\ invs[2].state = "left" /\ ~Failed(invs[2])
    /\ Cardinality(DeliveriesOf(2)) = 1
    /\ Len(uncaught) = 1

(***************************************************************************)
(* The resolver's properties.                                              *)
(***************************************************************************)
Unresolved == {i \in DOMAIN spec.functions : spec.functions[i].func.name \notin env.exports}

ErrorsOfKind(kind) == {k \in DOMAIN errors : errors[k].kind = kind}

\* C11: in by-name mode every function whose name is not exported gets exactly
\* one report, a resolution error, and no hook; every other function of the
\* list, before or after it, is handed to the binder (which attaches it or
\* reports its schema, once); with k unresolvable functions out of n there
\* are exactly k resolution errors and n - k functions bound.
C11_UnresolvedSkippedOthersBound ==
    (tracePc = "done" /\ spec.module # NONE)
        => /\ \A i \in Unresolved :
                /\ Cardinality(ErrorsAbout(i)) = 1
                /\ \A k \in ErrorsAbout(i) :
                     errors[k].kind = "resolve" /\ errors[k].name = spec.functions[i].func.name
                /\ HooksOf(i) = {}
           /\ \A i \in (DOMAIN spec.functions) \ Unresolved :
                /\ Cardinality(HooksOf(i)) + Cardinality(ErrorsAbout(i)) = 1
                /\ \A k \in ErrorsAbout(i) : errors[k].kind = "circular"
                /\ \A k \in HooksOf(i) :
                     hooks[k].impl = ExportAddress(spec.functions[i].func.name)
           /\ Cardinality(ErrorsOfKind("resolve")) = Cardinality(Unresolved)
           /\ Len(hooks) + Cardinality(ErrorsOfKind("circular"))
                = Len(spec.functions) - Cardinality(Unresolved)

\* the first of two functions is not exported, the second is and is attached
C11_Witness ==
    /\ tracePc = "done" /\ spec.module # NONE
    /\ Len(spec.functions) = 2
    /\ Unresolved = {1}
    /\ Len(errors) = 1 /\ errors[1].kind = "resolve" /\ errors[1].idx = 1
    /\ Len(hooks) = 1 /\ hooks[1].idx = 2

\* the sum of the sizes of the padding markers before the i-th entry
RECURSIVE PaddingBefore(_, _)
PaddingBefore(functions, i) ==
    IF i <= 1 THEN 0
    ELSE PaddingBefore(functions, i - 1)
         + (IF functions[i - 1].isPadding THEN functions[i - 1].n ELSE 0)

FunctionsBefore(functions, i) == Cardinality({j \in 1..(i - 1) : ~functions[j].isPadding})

\* base + W * (function entries before + sizes of the padding markers before)
SlotOffset(i) ==
    pointerSize * (FunctionsBefore(spec.functions, i) + PaddingBefore(spec.functions, i))

VtableMode == spec.module = NONE /\ spec.vtable # NONE

\* the function entries the walk comes to: every function entry before them
\* has a readable slot
Walked ==
    SelectSeq([i \in 1..Len(spec.functions) |-> i],
              LAMBDA i : /\ ~spec.functions[i].isPadding
                         /\ \A j \in 1..(i - 1) : spec.functions[j].isPadding
                                                  \/ SlotOffset(j) \in env.readable)

\* C12: in by-vtable mode the memory reads are, in order, one per function
\* entry the walk comes to, at base + W * (function entries before it + sizes
\* of the padding markers before it); a padding marker causes no read; every
\* function whose slot was read is handed to the binder with the pointer
\* stored there, and the offset advances past it whether or not its schema
\* compiled.
C12_SlotOffsets ==
    (tracePc = "done" /\ VtableMode)
        => /\ reads = [k \in 1..Len(Walked) |-> SlotOffset(Walked[k])]
           /\ \A k \in DOMAIN hooks : hooks[k].impl = SlotValue(SlotOffset(hooks[k].idx))
           /\ \A k \in 1..Len(Walked) :
                SlotOffset(Walked[k]) \in env.readable
                  => Cardinality(HooksOf(Walked[k])) + Cardinality(ErrorsAbout(Walked[k])) = 1

\* [padding(2), read]: the slot of read is at 2 * W
C12_Witness ==
    /\ tracePc = "done" /\ VtableMode
    /\ spec.functions = <<padding(2), Entry(ReadFunc)>>
    /\ reads = <<2 * pointerSize>>
    /\ Len(hooks) = 1 /\ hooks[1].impl = SlotValue(2 * pointerSize)

\* the function entries whose slot cannot be read
UnreadableEntries ==
    {i \in DOMAIN spec.functions :
        ~spec.functions[i].isPadding /\ SlotOffset(i) \notin env.readable}

FunctionsUpTo(i) == {j \in 1..i : ~spec.functions[j].isPadding}

\* C13: in by-vtable mode, when the read of a slot fails, exactly one error is
\* reported (the read failure, for that entry), there is no read, no hook and
\* no report for an entry after it and no hook for the entry itself, and
\* every function entry before it has been handed to the binder: those
\* without circular dependency are attached.
C13_ReadFailureEndsWalk ==
    (tracePc = "done" /\ VtableMode)
        => /\ UnreadableEntries = {} => ErrorsOfKind("vtable") = {}
           /\ \A i \in UnreadableEntries :
                (\A j \in UnreadableEntries : i <= j)
                  => /\ Cardinality(ErrorsOfKind("vtable")) = 1
                     /\ \A k \in ErrorsOfKind("vtable") : errors[k].idx = i /\ k = Len(errors)
                     /\ Len(reads) = Cardinality(FunctionsUpTo(i))
                     /\ reads[Len(reads)] = SlotOffset(i)
                     /\ \A j \in DOMAIN spec.functions :
                          /\ j >= i => HooksOf(j) = {}
                          /\ j > i => ErrorsAbout(j) = {}
                          /\ (j < i /\ ~spec.functions[j].isPadding)
                               => /\ Cardinality(HooksOf(j)) + Cardinality(ErrorsAbout(j)) = 1
                                  /\ NonCircular(spec.functions[j].func)
                                       => Cardinality(HooksOf(j)) = 1

\* <<read, stat>>: read is attached, the slot of stat cannot be read
C13_Witness ==
    /\ tracePc = "done" /\ VtableMode
    /\ spec.functions = <<Entry(ReadFunc), Entry(StatFunc)>>
    /\ UnreadableEntries = {2}
    /\ Len(hooks) = 1 /\ hooks[1].idx = 1
    /\ Len(errors) = 1 /\ errors[1].kind = "vtable" /\ errors[1].idx = 2
    /\ reads = <<0, pointerSize>>

\* C14: trace raises its configuration error exactly when the configuration
\* has neither a module nor a vtable, and when it has raised nothing has been
\* attached, nothing has been read and onError has not been called (so no
\* schema went through the binder, which ends every compilation in an attach
\* or a report).
C14_NoLocatorThrowsFirst ==
    tracePc # "init"
        => /\ tracePc = "thrown" <=> (spec.module = NONE /\ spec.vtable = NONE)
           /\ tracePc = "thrown" => (hooks = <<>> /\ errors = <<>> /\ reads = <<>>)

\* two functions to trace, and no locator
C14_Witness ==
    /\ tracePc = "thrown"
    /\ spec.module = NONE /\ spec.vtable = NONE
    /\ spec.functions = <<Entry(ReadFunc), Entry(LoopFunc)>>
    /\ hooks = <<>> /\ errors = <<>>

\* C20: with both a module and a vtable, trace raises no configuration error
\* and does what it does for the same configuration without the vtable: every
\* function is looked up by its exported name (attached at the export's
\* address, or reported), and no vtable slot is read.
C20_BothLocatorsByName ==
    (tracePc # "init" /\ spec.module # NONE /\ spec.vtable # NONE)
        => /\ tracePc = "done"
           /\ reads = <<>>
           /\ ErrorsOfKind("vtable") = {}
           /\ \A k \in DOMAIN hooks :
                /\ hooks[k].name \in env.exports
                /\ hooks[k].impl = ExportAddress(hooks[k].name)
           /\ \A i \in Unresolved :
                \E k \in ErrorsAbout(i) : errors[k].kind = "resolve"
           /\ \E st \in {trace([spec EXCEPT !.vtable = NONE], env)} :
                errors = st.errors /\ hooks = st.hooks /\ ~st.thrown

\* both locators, no readable vtable slot, and both functions attached
C20_Witness ==
    /\ tracePc = "done"
    /\ spec.module # NONE /\ spec.vtable # NONE
    /\ env.readable = {}
    /\ spec.functions = <<Entry(ReadFunc), Entry(StatFunc)>>
    /\ Len(hooks) = 2 /\ reads = <<>> /\ errors = <<>>

(***************************************************************************)
(* The value types' properties.                                            *)
(***************************************************************************)
\* the types built on pointer(pointee) with a pointee
PointerFamily == {"intPointer", "byteArray", "utf8", "utf16"}

\* C15: for every pointer type with a pointee (byte buffer, 8-bit string,
\* 16-bit string, pointer to int), parse of a null raw word returns null
\* without raising and without a call of Memory.read*, whatever the type
\* parameters; no parse of any type reads memory for a null word, and a
\* read is made at the raw word of a pointer type, which is not null.
C15_NullPointerNoRead ==
    returned.done
        => /\ (call.rawValue.defined /\ call.rawValue.word = 0)
                => /\ returned.result.reads = <<>>
                   /\ call.base \in PointerFamily
                        => (~returned.result.raised /\ returned.result.value = Null)
           /\ returned.result.reads # <<>>
                => /\ call.base \in PointerFamily
                   /\ call.rawValue.defined /\ call.rawValue.word # 0
                   /\ \A k \in DOMAIN returned.result.reads :
                        returned.result.reads[k].ptr = call.rawValue.word

\* a byte buffer parsed from the null word without type parameters
C15_Witness ==
    /\ returned.done
    /\ call.base = "byteArray" /\ call.parameters = NoParameters
    /\ call.rawValue.defined /\ call.rawValue.word = 0
    /\ returned.result = Normal(Null)

(***************************************************************************)
(* The compiler's order and termination.                                   *)
(***************************************************************************)
\* The scan of a pass, begun with the names in `satisfied`, in which `name`
\* becomes satisfiable: the scan that finds all its requires satisfied when
\* it visits it.  k is the number of the scan begun with `satisfied`; 0 when
\* no scan of the pass satisfies the name.
RECURSIVE ScanOf(_, _, _, _)
ScanOf(args, satisfied, name, k) ==
    LET r == scanArgs(args, 1, satisfied, <<>>)
    IN  IF name \in r.satisfied \ satisfied THEN k
        ELSE IF r.satisfied = satisfied THEN 0
        ELSE ScanOf(args, r.satisfied, name, k + 1)

\* the actions of one list follow the scans, and within a scan the declaration order
InScanOrder(f, actions, satisfied) ==
    \A p, q \in 1..Len(actions) :
        p < q => \/ ScanOf(allArgs(f), satisfied, actions[p].name, 1)
                      < ScanOf(allArgs(f), satisfied, actions[q].name, 1)
                 \/ /\ ScanOf(allArgs(f), satisfied, actions[p].name, 1)
                         = ScanOf(allArgs(f), satisfied, actions[q].name, 1)
                    /\ actions[p].index < actions[q].index

C17_ScansBounded ==
    compiled.done
        => /\ compiled.result.scans1 \in 1..(Len(allArgs(func)) + 1)
           /\ compiled.result.scans2 \in 1..(Len(allArgs(func)) + 1)
           /\ compiled.result.scans1 - 1 <= Len(compiled.result.inputActions)
           /\ compiled.result.scans2 - 1 <= Len(compiled.result.outputActions)
           /\ compiled.result.scans1 + compiled.result.scans2 <= Len(allArgs(func)) + 2

\* two descriptors, the first needing the second: the first pass takes n + 1 scans
C17_Witness ==
    /\ compiled.done
    /\ Len(func.args) = 2 /\ func.ret = NullRet
    /\ compiled.result.scans1 = 3 /\ compiled.result.scans2 = 1
    /\ Len(compiled.result.inputActions) = 2

\* the descriptors whose condition or binding names a value no descriptor defines
DanglingDescriptors(f) ==
    {d \in Descriptors(f) : \E s \in SourcesOf(d) : s \notin {e.name : e \in Descriptors(f)}}

\* C19: a descriptor whose condition or binding names a value that no
\* descriptor defines gets no action in either list and computeActions
\* returns false, with or without a cycle in the schema; the binder then
\* reports the function with the circular-dependency error, once, and
\* attaches nothing.
C19_DanglingReportedAsCircular ==
    DanglingDescriptors(func) # {}
        => /\ compiled.done
                => /\ ~compiled.result.ok
                   /\ \A d \in DanglingDescriptors(func) :
                        d.name \notin NamesOf(AllActions(compiled.result))
           /\ recompiled.done
                => /\ ~recompiled.result.ok
                   /\ errors = <<[kind |-> "circular", name |-> func.name, idx |-> 1]>>
                   /\ hooks = <<>>

\* one argument with a condition on a name nobody defines, next to a plain
\* one: no cycle, and yet reported
C19_Witness ==
    /\ recompiled.done
    /\ Len(func.args) = 2
    /\ func.args[1].condition.value = Dangling
    /\ SourcesOf(func.args[2]) = {}
    /\ ~HasCycle(func)
    /\ NamesOf(compiled.result.inputActions) = {"b"}
    /\ Len(errors) = 1 /\ errors[1].kind = "circular"
    /\ hooks = <<>>

(***************************************************************************)
(* The captured values.                                                    *)
(***************************************************************************)
ValuesActions(h) == hooks[h].inputActions \o hooks[h].outputActions

====
